---- MODULE Spec2Model ----
(***************************************************************************)
(* battery-notifier (src/src/main.rs): the polling loop battery_notifier,  *)
(* its notification debounce state machine, the level stream and the f32   *)
(* level computation calc_battery_level.                                   *)
(*                                                                         *)
(* Time is counted in whole seconds of the monotonic clock (Instant).      *)
(***************************************************************************)
EXTENDS Integers, Sequences, FiniteSets, TLC

VARIABLES
    pc,                  \* position of battery_notifier / of the level stream
    outcome,             \* "running", or how the process ended: "Err" | "panic"
    error,               \* which operation failed ("none" while running)
    clock,               \* the monotonic clock, in seconds
    total,               \* battery_level_stream: energy_full, read once (f32)
    current,             \* battery_level_stream: energy_now of this cycle (f32)
    level,               \* the BatteryLevel yielded to this cycle
    now,                 \* Instant::now() of this cycle
    charging,            \* battery_charging of this cycle
    notification_state,  \* the NotificationState of the loop
    fired,               \* alerts this iteration asked the Notifier to show
    last_alert,          \* history: the most recent notification shown
    last_low,            \* history: time of the most recent low alert, or NoTime
    charged_since_low,   \* history: a charging=true sample was processed since
    low_since_charging,  \* history: "never charged", or whether a sample with
                         \* charging=false and level <= 15 was processed since
                         \* the most recent charging=true sample ("no" | "yes")
    raw_now,             \* what this iteration's read of energy_now returned
    raw_full,            \* what the read of energy_full returned
    raw_status,          \* what this iteration's read of status returned
    libnotify_inits,     \* successful calls of libnotify::init
    libnotify_uninits,   \* calls of libnotify::uninit
    new_percent          \* the argument of a BatteryLevel::new taken alone

vars == <<pc, outcome, error, clock, total, current, level, now, charging,
          notification_state, fired, last_alert, last_low, charged_since_low,
          low_since_charging, raw_now, raw_full, raw_status, libnotify_inits,
          libnotify_uninits, new_percent>>

\* the locals of one loop iteration
sample == <<current, level, now, charging, raw_now, raw_status>>
\* what the debounce state machine writes
alerts == <<notification_state, fired, last_alert, last_low, charged_since_low,
            low_since_charging>>

----------------------------------------------------------------------------
(* Bounds of the model.                                                    *)

\* energy_now and energy_full range over 0..MaxEnergy in the level computation
MaxEnergy == 200
\* the loop is explored while the clock is at most MaxTime seconds
MaxTime == 370
\* a cycle takes the 60 s sleep plus 0..MaxDrift seconds of reads and lateness
MaxDrift == 1
\* BatteryLevel::new taken alone is given the integers -MaxPercent..MaxPercent
MaxPercent == 300

----------------------------------------------------------------------------
(* Program constants.                                                      *)

CRITICAL_BATTERY_LEVEL == 6
LOW_BATTERY_LEVEL == 15
crit_frequency == 60
\* the cooldown given in seconds where minutes were meant
low_frequency_C6 == 5 * 1
low_frequency == 5 * 60
\* a sleep of half a minute
SleepSecs_C17 == 60 \div 2
SleepSecs == 60

I32Max == 2147483647

NoTime == -1

----------------------------------------------------------------------------
(* IEEE-754 binary32 arithmetic, as far as calc_battery_level uses it.     *)
(* A finite non-zero f32 is [cls |-> "fin", m, e] with value m * 2^e and   *)
(* 2^23 <= m < 2^24 (24 significant bits, round to nearest, ties to even). *)

Pow2(k) == 2 ^ k

F32Zero == [cls |-> "zero", m |-> 0, e |-> 0]
F32Inf == [cls |-> "inf", m |-> 0, e |-> 0]
F32NaN == [cls |-> "nan", m |-> 0, e |-> 0]

RECURSIVE BitLen(_)
BitLen(n) == IF n = 0 THEN 0 ELSE 1 + BitLen(n \div 2)

RECURSIVE TrailingZeros(_)
TrailingZeros(n) == IF n % 2 = 1 THEN 0 ELSE 1 + TrailingZeros(n \div 2)

\* n with its k low bits dropped, rounded to nearest, ties to even; sticky says
\* that non-zero bits lie below n's lowest bit.
RoundNearestEven(n, k, sticky) ==
    IF k = 0 THEN n
    ELSE LET q == n \div Pow2(k)
             rem == n % Pow2(k)
             half == Pow2(k - 1)
             up == \/ rem > half
                   \/ rem = half /\ sticky
                   \/ rem = half /\ ~sticky /\ q % 2 = 1
         IN  IF up THEN q + 1 ELSE q

\* The f32 nearest to n * 2^e (n > 0), sticky as above.
F32Norm(n, e, sticky) ==
    LET b == BitLen(n)
    IN  IF b <= 24
        THEN [cls |-> "fin", m |-> n * Pow2(24 - b), e |-> e - (24 - b)]
        ELSE LET k == b - 24
                 q == RoundNearestEven(n, k, sticky)
             IN  IF q = Pow2(24)
                 THEN [cls |-> "fin", m |-> Pow2(23), e |-> e + k + 1]
                 ELSE [cls |-> "fin", m |-> q, e |-> e + k]

\* `res as f32` of a u32
U32ToF32(n) == IF n = 0 THEN F32Zero ELSE F32Norm(n, 0, FALSE)

\* steps more quotient bits of r / d by long division
RECURSIVE DivBits(_, _, _, _)
DivBits(r, d, acc, steps) ==
    IF steps = 0 THEN [q |-> acc, r |-> r]
    ELSE LET r2 == 2 * r
         IN  IF r2 >= d THEN DivBits(r2 - d, d, 2 * acc + 1, steps - 1)
                        ELSE DivBits(r2, d, 2 * acc, steps - 1)

\* a / b of non-negative f32 values
F32Div(a, b) ==
    CASE a.cls = "nan" \/ b.cls = "nan" -> F32NaN
      [] a.cls = "zero" /\ b.cls = "zero" -> F32NaN
      [] a.cls = "inf" /\ b.cls = "inf" -> F32NaN
      [] a.cls = "inf" \/ b.cls = "zero" -> F32Inf
      [] a.cls = "zero" \/ b.cls = "inf" -> F32Zero
      [] OTHER ->
            LET d == DivBits(a.m % b.m, b.m, a.m \div b.m, 25)
            IN  F32Norm(d.q, a.e - b.e - 25, d.r # 0)

\* a * b of non-negative f32 values (b's significand short enough for the
\* exact product to fit 32-bit integers, as that of 100.0 is)
F32Mul(a, b) ==
    CASE a.cls = "nan" \/ b.cls = "nan" -> F32NaN
      [] a.cls = "inf" /\ b.cls = "zero" -> F32NaN
      [] a.cls = "zero" /\ b.cls = "inf" -> F32NaN
      [] a.cls = "inf" \/ b.cls = "inf" -> F32Inf
      [] a.cls = "zero" \/ b.cls = "zero" -> F32Zero
      [] OTHER ->
            LET z == TrailingZeros(b.m)
            IN  F32Norm(a.m * (b.m \div Pow2(z)), a.e + b.e + z, FALSE)

\* the literal 100.0
F32Hundred == U32ToF32(100)

\* f32::round: to the nearest integer, halves away from zero
F32Round(a) ==
    IF a.cls # "fin" \/ a.e >= 0 THEN a
    ELSE IF 0 - a.e >= 26 THEN F32Zero
    ELSE LET unit == Pow2(0 - a.e)
             fl == a.m \div unit
             n == IF 2 * (a.m % unit) >= unit THEN fl + 1 ELSE fl
         IN  IF n = 0 THEN F32Zero ELSE F32Norm(n, 0, FALSE)

\* `as i32`: truncates, saturates, NaN gives 0
F32AsI32(a) ==
    CASE a.cls = "nan" -> 0
      [] a.cls = "zero" -> 0
      [] a.cls = "inf" -> I32Max
      [] OTHER ->
            IF a.e >= 8 THEN I32Max
            ELSE IF a.e >= 0 THEN a.m * Pow2(a.e)
            ELSE IF 0 - a.e >= 25 THEN 0
            ELSE a.m \div Pow2(0 - a.e)

Min(a, b) == IF a <= b THEN a ELSE b

----------------------------------------------------------------------------
(* BatteryLevel                                                            *)

\* the constructor without its contract: only the u8 conversion rejects
BatteryLevel_new_C11(p) ==
    IF p >= 0 /\ p <= 255
    THEN [panicked |-> FALSE, level |-> p]
    ELSE [panicked |-> TRUE, level |-> 0]

\* BatteryLevel::new: the contract and the u8 conversion panic outside 0..100
BatteryLevel_new(percent) ==
    IF percent >= 0 /\ percent <= 255 /\ percent <= 100
    THEN [panicked |-> FALSE, level |-> percent]
    ELSE [panicked |-> TRUE, level |-> 0]

\* BatteryLevel::level: the wrapped u8
BatteryLevel_level(b) == b.level

calc_battery_level(cur, tot) ==
    BatteryLevel_new(
        Min(F32AsI32(F32Round(F32Mul(F32Div(cur, tot), F32Hundred))), 100))

----------------------------------------------------------------------------
(* Battery Source reads                                                    *)

\* tokio::fs::read and String::from_utf8: the file's text, or an error
ReadOk(x) == [ok |-> TRUE, v |-> x]
ReadFailed == [ok |-> FALSE, v |-> "error"]
NotRead == [ok |-> FALSE, v |-> "not read"]

\* what energy_full and energy_now hold in the explored runs of the loop
EnergyFullReads == {100}
EnergyNowReads == {2, 6, 7, 15, 16}

\* the trimmed contents of the status file
StatusReads == {"Charging", "Unknown", "Discharging", "Not charging", "Full",
                "Empty"}

\* an unrecognised status taken as "not charging"
battery_charging_C9(raw) ==
    CASE ~raw.ok -> [ok |-> FALSE, v |-> FALSE]
      [] raw.v = "Charging" -> [ok |-> TRUE, v |-> TRUE]
      [] OTHER -> [ok |-> TRUE, v |-> FALSE]

\* battery_charging: the status string to a bool, or an error
battery_charging(raw) ==
    CASE ~raw.ok -> [ok |-> FALSE, v |-> FALSE]
      [] raw.v = "Charging" -> [ok |-> TRUE, v |-> TRUE]
      [] raw.v \in {"Unknown", "Discharging", "Not charging", "Full"} ->
            [ok |-> TRUE, v |-> FALSE]
      [] OTHER -> [ok |-> FALSE, v |-> FALSE]

\* battery_energy_full / battery_energy_now: the parsed u32 as f32, or an error
battery_energy_full(raw) ==
    IF ~raw.ok THEN [ok |-> FALSE, v |-> F32Zero]
    ELSE [ok |-> TRUE, v |-> U32ToF32(raw.v)]

battery_energy_now(raw) ==
    IF ~raw.ok THEN [ok |-> FALSE, v |-> F32Zero]
    ELSE [ok |-> TRUE, v |-> U32ToF32(raw.v)]

----------------------------------------------------------------------------
(* NotificationService                                                     *)

NOTIFY_EXPIRES_DEFAULT == -1

\* Notification::new: a notification with libnotify's default urgency and timeout
Notification_new(summary, lvl, icon) ==
    [summary |-> summary, level |-> lvl, icon |-> icon,
     urgency |-> "Normal", timeout |-> NOTIFY_EXPIRES_DEFAULT]

\* notification.show(): the alert as the Notifier is asked to show it, and
\* whether it displayed it
Show(kind, n, show_ok) ==
    [kind |-> kind, level |-> n.level, urgency |-> n.urgency,
     timeout |-> n.timeout, displayed |-> show_ok]

\* notify_critical_battery: urgency and timeout are set, then the notification
\* is shown
notify_critical_battery(lvl, show_ok) ==
    LET n0 == Notification_new("Battery Critical!", lvl, "battery-caution")
        n1 == [n0 EXCEPT !.urgency = "Critical"]
        n2 == [n1 EXCEPT !.timeout = I32Max]
    IN  [ok |-> show_ok, calls |-> <<Show("critical", n2, show_ok)>>]

\* notify_low_battery: the notification is shown, then urgency and timeout are
\* set on the object
notify_low_battery(lvl, show_ok) ==
    LET n0 == Notification_new("Battery Low!", lvl, "battery-low")
    IN  [ok |-> show_ok, calls |-> <<Show("low", n0, show_ok)>>]

----------------------------------------------------------------------------
(* NotificationState and the guards of the debounce state machine          *)

NeverNotified == [tag |-> "NeverNotified", at |-> NoTime]
Charging == [tag |-> "Charging", at |-> NoTime]
NotifiedLow(t) == [tag |-> "NotifiedLow", at |-> t]
NotifiedCritical(t) == [tag |-> "NotifiedCritical", at |-> t]

\* Instant::duration_since: saturates at zero
duration_since(later, earlier) == IF later >= earlier THEN later - earlier ELSE 0

\* the cooldown compared with <= instead of <
CriticalCooldown_C2(s, n) ==
    s.tag = "NotifiedCritical" /\ duration_since(n, s.at) <= crit_frequency

\* the cooldown matched on the wrong variant
CriticalCooldown_C3(s, n) ==
    s.tag = "NotifiedLow" /\ duration_since(n, s.at) < crit_frequency

\* matches!(notification_state, NotifiedCritical(t) if now - t < crit_frequency)
CriticalCooldown(s, n) ==
    s.tag = "NotifiedCritical" /\ duration_since(n, s.at) < crit_frequency

\* a low alert that is never repeated: the cooldown without its time test
LowCooldown_C19(s, n) == s.tag = "NotifiedLow"

\* the cooldown compared with <= instead of <
LowCooldown_C5(s, n) ==
    s.tag = "NotifiedLow" /\ duration_since(n, s.at) <= low_frequency

\* matches!(notification_state, NotifiedLow(t) if now - t < low_frequency)
LowCooldown(s, n) ==
    s.tag = "NotifiedLow" /\ duration_since(n, s.at) < low_frequency

\* a critical alert suppressing low alerts for the critical cooldown only
CriticalRecent_C4(s, n) ==
    s.tag = "NotifiedCritical" /\ duration_since(n, s.at) < crit_frequency

\* matches!(notification_state, NotifiedCritical(t) if now - t < low_frequency)
CriticalRecent(s, n) ==
    s.tag = "NotifiedCritical" /\ duration_since(n, s.at) < low_frequency

\* the critical arm tried before the charging arm
Branch_C1(s, n, lvl, chg) ==
    IF lvl <= CRITICAL_BATTERY_LEVEL /\ ~CriticalCooldown(s, n)
    THEN "critical"
    ELSE IF chg THEN "charging"
    ELSE IF ~chg /\ lvl <= LOW_BATTERY_LEVEL /\ ~LowCooldown(s, n)
            /\ ~CriticalRecent(s, n)
    THEN "low"
    ELSE "none"

\* which arm of the if / else if chain a sample takes
Branch(s, n, lvl, chg) ==
    IF chg THEN "charging"
    ELSE IF ~chg /\ lvl <= CRITICAL_BATTERY_LEVEL /\ ~CriticalCooldown(s, n)
    THEN "critical"
    ELSE IF ~chg /\ lvl <= LOW_BATTERY_LEVEL /\ ~LowCooldown(s, n)
            /\ ~CriticalRecent(s, n)
    THEN "low"
    ELSE "none"

\* the arm's call of the notification service
Notify(branch, lvl, show_ok) ==
    CASE branch = "critical" -> notify_critical_battery(lvl, show_ok)
      [] branch = "low" -> notify_low_battery(lvl, show_ok)
      [] OTHER -> [ok |-> TRUE, calls |-> <<>>]

\* a final else arm that resets the state
NextState_C7(branch, s, n) ==
    CASE branch = "charging" -> Charging
      [] branch = "critical" -> NotifiedCritical(n)
      [] branch = "low" -> NotifiedLow(n)
      [] OTHER -> NeverNotified

\* the low arm without its assignment
NextState_C12(branch, s, n) ==
    CASE branch = "charging" -> Charging
      [] branch = "critical" -> NotifiedCritical(n)
      [] OTHER -> s

\* the critical arm recording a low alert
NextState_C16(branch, s, n) ==
    CASE branch = "charging" -> Charging
      [] branch = "critical" -> NotifiedLow(n)
      [] branch = "low" -> NotifiedLow(n)
      [] OTHER -> s

\* the charging arm without its assignment
NextState_C18(branch, s, n) ==
    CASE branch = "critical" -> NotifiedCritical(n)
      [] branch = "low" -> NotifiedLow(n)
      [] OTHER -> s

\* the arm's assignment to notification_state
NextState(branch, s, n) ==
    CASE branch = "charging" -> Charging
      [] branch = "critical" -> NotifiedCritical(n)
      [] branch = "low" -> NotifiedLow(n)
      [] OTHER -> s

\* the state assigned before the Notifier's result is looked at
AfterNotify_C8(ok, branch, s, n) == NextState(branch, s, n)

\* notify_..(level)?; notification_state = ..: the assignment follows the `?`,
\* which returns on Err
AfterNotify(ok, branch, s, n) == IF ok THEN NextState(branch, s, n) ELSE s

NoAlert == [kind |-> "none", at |-> NoTime]

----------------------------------------------------------------------------
(* The process                                                             *)

NoLevel == -1

Init ==
    /\ pc = "start"
    /\ outcome = "running"
    /\ error = "none"
    /\ clock = 0
    /\ total = F32Zero
    /\ current = F32Zero
    /\ level = NoLevel
    /\ now = NoTime
    /\ charging = FALSE
    /\ notification_state = NeverNotified
    /\ fired = <<>>
    /\ last_alert = NoAlert
    /\ last_low = NoTime
    /\ charged_since_low = FALSE
    /\ low_since_charging = "never charged"
    /\ raw_now = NotRead
    /\ raw_full = NotRead
    /\ raw_status = NotRead
    /\ libnotify_inits = 0
    /\ libnotify_uninits = 0
    /\ new_percent = 0

\* a panic that ends the process without unwinding: nothing is dropped
Exit_C13(how, what) ==
    /\ pc' = "exit"
    /\ outcome' = how
    /\ error' = what
    /\ libnotify_uninits' =
          IF how = "panic" THEN libnotify_uninits
          ELSE libnotify_uninits + libnotify_inits

\* The process ends: battery_notifier returns Err, or a panic unwinds it. Its
\* NotificationService, if one was built, is dropped.
Exit(how, what) ==
    /\ pc' = "exit"
    /\ outcome' = how
    /\ error' = what
    /\ libnotify_uninits' = libnotify_uninits + libnotify_inits

\* NotificationService::new(APP_NAME)?
Start ==
    /\ pc = "start"
    /\ \E init_ok \in BOOLEAN :
          IF init_ok
          THEN /\ pc' = "read_full"
               /\ libnotify_inits' = libnotify_inits + 1
               /\ UNCHANGED <<outcome, error, libnotify_uninits>>
          ELSE /\ Exit("Err", "init")
               /\ UNCHANGED libnotify_inits
    /\ UNCHANGED <<new_percent, clock, total, raw_full, sample, alerts>>

\* the stream's first poll: battery_energy_full().await.expect(..)
ReadEnergyFull ==
    /\ pc = "read_full"
    /\ \E raw \in {ReadOk(n) : n \in EnergyFullReads} \cup {ReadFailed} :
          LET r == battery_energy_full(raw)
          IN  IF r.ok
              THEN /\ total' = r.v
                   /\ raw_full' = raw
                   /\ pc' = "read_now"
                   /\ UNCHANGED <<outcome, error, libnotify_uninits>>
              ELSE /\ Exit("panic", "energy_full")
                   /\ raw_full' = raw
                   /\ UNCHANGED total
    /\ UNCHANGED <<new_percent, clock, sample, alerts, libnotify_inits>>

\* a loop that is left at once: the stream ends before its first element
stream_loop_C15 == FALSE

\* `loop { .. }` of battery_level_stream: it has no condition and no break, so
\* the stream's body goes around for ever and the stream never ends
stream_loop == TRUE

\* battery_stream.next().await: battery_energy_now().await.expect(..), then
\* yield calc_battery_level(current, total); a new iteration of the body
\* begins. A stream that has ended gives None: the while let is left and
\* battery_notifier returns Ok(()).
ReadEnergyNow ==
    /\ pc = "read_now"
    /\ \E raw \in {ReadOk(n) : n \in EnergyNowReads} \cup {ReadFailed} :
          LET r == battery_energy_now(raw)
              l == calc_battery_level(r.v, total)
          IN  IF ~stream_loop
              THEN /\ Exit("Ok", "none")
                   /\ UNCHANGED <<raw_now, current, level>>
              ELSE IF ~r.ok
              THEN /\ Exit("panic", "energy_now")
                   /\ raw_now' = raw
                   /\ UNCHANGED <<current, level>>
              ELSE IF l.panicked
              THEN /\ Exit("panic", "BatteryLevel::new")
                   /\ raw_now' = raw
                   /\ UNCHANGED <<current, level>>
              ELSE /\ current' = r.v
                   /\ raw_now' = raw
                   /\ level' = l.level
                   /\ pc' = "read_charging"
                   /\ UNCHANGED <<outcome, error, libnotify_uninits>>
    /\ UNCHANGED <<new_percent, clock, total, raw_full, now, charging,
                   raw_status, alerts, libnotify_inits>>

\* let now = Instant::now(); let battery_charging = battery_charging().await?;
ReadCharging ==
    /\ pc = "read_charging"
    /\ now' = clock
    /\ \E raw \in {ReadOk(t) : t \in StatusReads} \cup {ReadFailed} :
          LET r == battery_charging(raw)
          IN  /\ raw_status' = raw
              /\ IF r.ok
                 THEN /\ charging' = r.v
                      /\ pc' = "decide"
                      /\ UNCHANGED <<outcome, error, libnotify_uninits>>
                 ELSE /\ Exit("Err", "status")
                      /\ UNCHANGED charging
    /\ UNCHANGED <<new_percent, clock, total, raw_full, current, raw_now,
                   level, alerts, libnotify_inits>>

\* the if / else if chain: the arm's notification, then its assignment
Decide ==
    /\ pc = "decide"
    /\ \E show_ok \in BOOLEAN :
          LET branch == Branch(notification_state, now, level, charging)
              r == Notify(branch, level, show_ok)
          IN  /\ fired' = fired \o r.calls
              /\ notification_state' =
                    AfterNotify(r.ok, branch, notification_state, now)
              /\ IF r.ok
                 THEN /\ last_alert' = IF branch \in {"critical", "low"}
                                       THEN [kind |-> branch, at |-> now]
                                       ELSE last_alert
                      /\ last_low' = IF branch = "low" THEN now ELSE last_low
                      /\ charged_since_low' =
                            IF branch = "low" THEN FALSE
                            ELSE IF branch = "charging" THEN TRUE
                            ELSE charged_since_low
                      /\ low_since_charging' =
                            IF charging THEN "no"
                            ELSE IF /\ level <= LOW_BATTERY_LEVEL
                                    /\ low_since_charging = "no"
                            THEN "yes"
                            ELSE low_since_charging
                      /\ pc' = "sleep"
                      /\ UNCHANGED <<outcome, error, libnotify_uninits>>
                 ELSE /\ Exit("Err", "notify_" \o branch)
                      /\ UNCHANGED <<last_alert, last_low, charged_since_low,
                                     low_since_charging>>
    /\ UNCHANGED <<new_percent, clock, total, raw_full, sample,
                   libnotify_inits>>

\* sleep(Duration::from_secs(60)).await: at least 60 s pass; the iteration
\* ends and its locals go out of scope
Sleep ==
    /\ pc = "sleep"
    /\ \E drift \in 0..MaxDrift :
          /\ clock + SleepSecs + drift <= MaxTime
          /\ clock' = clock + SleepSecs + drift
    /\ pc' = "read_now"
    /\ current' = F32Zero
    /\ raw_now' = NotRead
    /\ raw_status' = NotRead
    /\ level' = NoLevel
    /\ now' = NoTime
    /\ charging' = FALSE
    /\ fired' = <<>>
    /\ UNCHANGED <<new_percent, outcome, error, total, raw_full,
                   notification_state, last_alert, last_low, charged_since_low,
                   low_since_charging, libnotify_inits, libnotify_uninits>>

Next == Start \/ ReadEnergyFull \/ ReadEnergyNow \/ ReadCharging \/ Decide \/ Sleep

Spec == Init /\ [][Next]_vars

\* The single task of the current_thread runtime is polled again whenever the
\* read or the timer it awaits completes: a step that can be taken is taken.
FairSpec == Spec /\ WF_vars(Next)

----------------------------------------------------------------------------
(* The debounce state machine taken alone: one iteration of the loop body  *)
(* entered with any NotificationState of any age.                          *)

\* the ages now - t, in seconds, a carried timestamp is tried with
StartAges == {0, 30, crit_frequency - 1, crit_frequency, crit_frequency + 1,
              120, low_frequency - 1, low_frequency, low_frequency + 1}

InitAny ==
    \/ Init
    \/ /\ pc = "read_now"
       /\ outcome = "running"
       /\ error = "none"
       /\ clock \in StartAges
       /\ raw_full \in {ReadOk(n) : n \in EnergyFullReads}
       /\ total = battery_energy_full(raw_full).v
       /\ current = F32Zero
       /\ level = NoLevel
       /\ now = NoTime
       /\ charging = FALSE
       /\ notification_state \in
             {NeverNotified, Charging, NotifiedLow(0), NotifiedCritical(0)}
       /\ fired = <<>>
       /\ last_alert = NoAlert
       /\ last_low = NoTime
       /\ charged_since_low = FALSE
       /\ low_since_charging =
             IF notification_state = Charging THEN "no" ELSE "never charged"
       /\ raw_now = NotRead
       /\ raw_status = NotRead
       /\ libnotify_inits = 1
       /\ libnotify_uninits = 0
       /\ new_percent = 0

SpecAny == InitAny /\ [][Next]_vars

----------------------------------------------------------------------------
(* calc_battery_level taken alone, over all small energy readings.         *)

InitCalc ==
    /\ pc = "calc"
    /\ outcome = "running"
    /\ error = "none"
    /\ clock = 0
    /\ raw_now \in {ReadOk(n) : n \in 0..MaxEnergy}
    /\ raw_full \in {ReadOk(n) : n \in 0..MaxEnergy}
    /\ raw_status = NotRead
    /\ current = battery_energy_now(raw_now).v
    /\ total = battery_energy_full(raw_full).v
    /\ level = NoLevel
    /\ now = NoTime
    /\ charging = FALSE
    /\ notification_state = NeverNotified
    /\ fired = <<>>
    /\ last_alert = NoAlert
    /\ last_low = NoTime
    /\ charged_since_low = FALSE
    /\ low_since_charging = "never charged"
    /\ libnotify_inits = 0
    /\ libnotify_uninits = 0
    /\ new_percent = 0

\* yield calc_battery_level(current, total)
Calc ==
    /\ pc = "calc"
    /\ LET l == calc_battery_level(current, total)
       IN  IF l.panicked
           THEN /\ Exit("panic", "BatteryLevel::new")
                /\ UNCHANGED level
           ELSE /\ level' = l.level
                /\ pc' = "calc_done"
                /\ UNCHANGED <<outcome, error, libnotify_uninits>>
    /\ UNCHANGED <<new_percent, clock, total, raw_full, current, raw_now,
                   raw_status, now, charging, alerts, libnotify_inits>>

NextCalc == Calc

SpecCalc == InitCalc /\ [][NextCalc]_vars

----------------------------------------------------------------------------
(* BatteryLevel::new and BatteryLevel::level taken alone, over integers in *)
(* and out of the range of a u8.                                           *)

InitLevel ==
    /\ pc = "new"
    /\ outcome = "running"
    /\ error = "none"
    /\ clock = 0
    /\ new_percent \in (0 - MaxPercent)..MaxPercent
    /\ raw_now = NotRead
    /\ raw_full = NotRead
    /\ raw_status = NotRead
    /\ current = F32Zero
    /\ total = F32Zero
    /\ level = NoLevel
    /\ now = NoTime
    /\ charging = FALSE
    /\ notification_state = NeverNotified
    /\ fired = <<>>
    /\ last_alert = NoAlert
    /\ last_low = NoTime
    /\ charged_since_low = FALSE
    /\ low_since_charging = "never charged"
    /\ libnotify_inits = 0
    /\ libnotify_uninits = 0

\* BatteryLevel::new(percent).level()
New ==
    /\ pc = "new"
    /\ LET b == BatteryLevel_new(new_percent)
       IN  IF b.panicked
           THEN /\ Exit("panic", "BatteryLevel::new")
                /\ UNCHANGED level
           ELSE /\ level' = BatteryLevel_level(b)
                /\ pc' = "new_done"
                /\ UNCHANGED <<outcome, error, libnotify_uninits>>
    /\ UNCHANGED <<new_percent, clock, total, raw_full, current, raw_now,
                   raw_status, now, charging, alerts, libnotify_inits>>

NextLevel == New

SpecLevel == InitLevel /\ [][NextLevel]_vars

----------------------------------------------------------------------------
(* Properties.                                                             *)
(* A step of Decide is one pass through the if / else if chain (lines      *)
(* 151-171): fired is empty before it and holds the alerts it fired after. *)

\* f is exactly one alert, of the given kind
OneAlert(f, kind) == Len(f) = 1 /\ f[1].kind = kind

\* the iteration went on to its sleep, for the witnesses
Processed == pc = "sleep" /\ level # NoLevel

\* C1: a sample with charging=true, whatever the level and the state, fires
\* no alert and leaves the state Charging.
C1_ChargingSuppresses ==
    [][(pc = "decide" /\ charging)
         => (fired' = <<>> /\ notification_state' = Charging
             /\ last_alert' = last_alert /\ pc' = "sleep")]_vars

\* a charging sample at a critical level, one cycle after a critical alert
C1_Witness ==
    /\ Processed /\ charging /\ level <= 6
    /\ last_alert.kind = "critical" /\ now - last_alert.at <= 61
    /\ notification_state = Charging /\ fired = <<>>

\* C2: charging=false and level <= 6, in any state but NotifiedCritical(t)
\* with now - t < 60: exactly one critical alert fires, no low alert, and the
\* state becomes NotifiedCritical(now) (the Notifier having displayed it; its
\* failure is C8's case).
C2_CriticalFires ==
    [][(/\ pc = "decide" /\ ~charging /\ level <= 6
        /\ ~(/\ notification_state.tag = "NotifiedCritical"
             /\ now - notification_state.at < 60))
         => (/\ OneAlert(fired', "critical")
             /\ fired'[1].displayed
                  => (notification_state' = NotifiedCritical(now)
                      /\ pc' = "sleep"))]_vars

\* a critical alert one cycle after a low alert
C2_Witness ==
    /\ Processed /\ ~charging /\ level <= 6
    /\ last_low # NoTime /\ now - last_low <= 61 /\ ~charged_since_low
    /\ OneAlert(fired, "critical")
    /\ notification_state = NotifiedCritical(now)

\* C3: in NotifiedCritical(t0), charging=false and level <= 6: while
\* now - t0 < 60 no alert fires and the state stays NotifiedCritical(t0);
\* from now - t0 >= 60 on a critical alert fires again.
C3_CriticalCooldown ==
    [][(/\ pc = "decide" /\ ~charging /\ level <= 6
        /\ notification_state.tag = "NotifiedCritical")
         => IF now - notification_state.at < 60
            THEN /\ fired' = <<>>
                 /\ notification_state' = notification_state
                 /\ pc' = "sleep"
            ELSE OneAlert(fired', "critical")]_vars

\* a critical sample suppressed 1..59 s after the critical alert
C3_Witness ==
    /\ Processed /\ ~charging /\ level <= 6
    /\ notification_state.tag = "NotifiedCritical"
    /\ now - notification_state.at \in 1..59
    /\ fired = <<>>

\* C4: in NotifiedCritical(t0), charging=false and 6 < level <= 15: while
\* now - t0 < 300 no alert fires and the state is unchanged; from
\* now - t0 >= 300 on a low alert fires and the state becomes NotifiedLow(now).
C4_CriticalSuppressesLow ==
    [][(/\ pc = "decide" /\ ~charging /\ level > 6 /\ level <= 15
        /\ notification_state.tag = "NotifiedCritical")
         => IF now - notification_state.at < 300
            THEN /\ fired' = <<>>
                 /\ notification_state' = notification_state
                 /\ pc' = "sleep"
            ELSE /\ OneAlert(fired', "low")
                 /\ fired'[1].displayed
                      => (notification_state' = NotifiedLow(now)
                          /\ pc' = "sleep")]_vars

\* a low sample suppressed past the 60 s of the critical cooldown
C4_Witness ==
    /\ Processed /\ ~charging /\ level > 6 /\ level <= 15
    /\ notification_state.tag = "NotifiedCritical"
    /\ now - notification_state.at >= 60
    /\ now - notification_state.at < 300
    /\ fired = <<>>

\* C5: charging=false and 6 < level <= 15: in NotifiedLow(t) with
\* now - t < 300 nothing fires and the state is unchanged; in NeverNotified,
\* Charging, or NotifiedLow(t) with now - t >= 300 exactly one low alert and
\* no critical alert fires and the state becomes NotifiedLow(now).
C5_LowFires ==
    [][(/\ pc = "decide" /\ ~charging /\ level > 6 /\ level <= 15
        /\ notification_state.tag # "NotifiedCritical")
         => IF /\ notification_state.tag = "NotifiedLow"
               /\ now - notification_state.at < 300
            THEN /\ fired' = <<>>
                 /\ notification_state' = notification_state
                 /\ pc' = "sleep"
            ELSE /\ OneAlert(fired', "low")
                 /\ fired'[1].displayed
                      => (notification_state' = NotifiedLow(now)
                          /\ pc' = "sleep")]_vars

\* a low alert at level 15 exactly
C5_Witness ==
    /\ Processed /\ ~charging /\ level = 15
    /\ OneAlert(fired, "low")
    /\ notification_state = NotifiedLow(now)

\* a low alert is fired by this step
LowFires == pc = "decide" /\ OneAlert(fired', "low")

\* C6 as claimed: once a low alert has fired at time t, no further low alert
\* fires before t + 300, whatever samples arrive in between.
C6_LowCooldownAlways ==
    [][LowFires => (last_low = NoTime \/ now - last_low >= 300)]_vars

\* C6 as amended: once a low alert has fired at time t, no further low alert
\* fires before t + 300, unless a charging=true sample was processed in
\* between.
C6_LowCooldownUnlessCharged ==
    [][LowFires => (\/ last_low = NoTime
                    \/ charged_since_low
                    \/ now - last_low >= 300)]_vars

\* a low-level sample suppressed within 300 s of a low alert, with no charging
\* sample in between
C6_Witness ==
    /\ Processed /\ ~charging /\ level > 6 /\ level <= 15
    /\ last_low # NoTime /\ ~charged_since_low
    /\ now - last_low \in 1..299
    /\ fired = <<>>

\* no arm of the chain matches the sample; every sample with charging=false
\* and level > 15 is one
NoRuleMatches ==
    /\ ~charging
    /\ ~(/\ level <= 6
         /\ ~(/\ notification_state.tag = "NotifiedCritical"
              /\ now - notification_state.at < 60))
    /\ ~(/\ level <= 15
         /\ ~(/\ notification_state.tag = "NotifiedLow"
              /\ now - notification_state.at < 300)
         /\ ~(/\ notification_state.tag = "NotifiedCritical"
              /\ now - notification_state.at < 300))

\* C7: when no rule matches, no alert fires and the notification state, with
\* the timestamp it carries, is left as it was.
C7_NoRuleNoChange ==
    [][(pc = "decide" /\ NoRuleMatches)
         => (/\ fired' = <<>>
             /\ notification_state' = notification_state
             /\ last_alert' = last_alert
             /\ pc' = "sleep")]_vars

\* a sample above 15 in a NotifiedLow state that keeps its older timestamp
C7_Witness ==
    /\ Processed /\ ~charging /\ level > 15
    /\ notification_state.tag = "NotifiedLow"
    /\ notification_state.at < now
    /\ fired = <<>>

\* the Notifier failed to display the alert this step fired
DisplayFails == pc = "decide" /\ fired' # <<>> /\ ~fired'[1].displayed

\* C8: if displaying an alert fails, battery_notifier returns the error, the
\* notification state is not changed by that cycle, and nothing runs after.
C8_NotifyFailure ==
    [][/\ pc # "exit"
       /\ DisplayFails
            => (/\ pc' = "exit"
                /\ outcome' = "Err"
                /\ error' \in {"notify_critical", "notify_low"}
                /\ notification_state' = notification_state)]_vars

\* a critical alert that failed in a NotifiedLow state
C8_Witness ==
    /\ pc = "exit" /\ error = "notify_critical"
    /\ fired # <<>> /\ ~fired[1].displayed
    /\ notification_state.tag = "NotifiedLow"

\* a status text that is none of the five known ones
Unrecognised(r) ==
    r.ok /\ r.v \notin {"Charging", "Unknown", "Discharging", "Not charging", "Full"}

\* this step's read of a Battery Source file, or its parse, fails
SourceReadFails ==
    \/ pc = "read_full" /\ raw_full' = ReadFailed
    \/ pc = "read_now" /\ raw_now' = ReadFailed
    \/ pc = "read_charging"
         /\ (raw_status' = ReadFailed \/ Unrecognised(raw_status'))

\* C9: a failed read or parse of energy_full, energy_now or status ends the
\* run with a failure; no value is substituted, no alert fires, the
\* notification state is unchanged, and nothing runs after.
C9_ReadFailure ==
    [][/\ pc # "exit"
       /\ SourceReadFails
            => (/\ pc' = "exit"
                /\ outcome' \in {"Err", "panic"}
                /\ fired' = <<>>
                /\ notification_state' = notification_state
                /\ level' = level /\ charging' = charging /\ total' = total)]_vars

\* an unrecognised status read in a later cycle, after a critical alert
C9_Witness ==
    /\ pc = "exit" /\ outcome = "Err" /\ Unrecognised(raw_status)
    /\ notification_state.tag = "NotifiedCritical"
    /\ fired = <<>>

\* n / d rounded to the nearest integer, halves up
RoundHalfUp(n, d) == (2 * n + d) \div (2 * d)

\* C10: for energy_now >= 0 and energy_full > 0 calc_battery_level returns
\* min(100, round-half-away-from-zero(100 * energy_now / energy_full)).
C10_LevelIsRoundedPercent ==
    (pc = "calc_done" /\ raw_full.v > 0)
        => level = Min(100, RoundHalfUp(100 * raw_now.v, raw_full.v))

\* C11: a BatteryLevel built from an integer n in 0..100 reads back as n with
\* level(); from any other integer, negative or above 100, the constructor
\* fails and no BatteryLevel, clamped or not, is produced.
C11_RoundTripOrReject ==
    pc # "new" =>
        IF new_percent >= 0 /\ new_percent <= 100
        THEN pc = "new_done" /\ level = new_percent /\ outcome = "running"
        ELSE pc = "exit" /\ outcome = "panic" /\ level = NoLevel

\* an integer a u8 can hold, but above 100, was rejected
C11_Witness ==
    /\ pc = "exit" /\ outcome = "panic" /\ error = "BatteryLevel::new"
    /\ new_percent > 100 /\ new_percent <= 255

\* C12 as claimed: whenever the notification state is Charging, the most
\* recently processed sample had charging=true.
C12_ChargingMeansCharging ==
    (pc = "sleep" /\ notification_state = Charging) => charging

\* C12 as amended: whenever the notification state is Charging, a sample with
\* charging=true has been processed and no sample with charging=false and
\* level <= 15 has been processed since; the most recently processed sample
\* had charging=true, or charging=false and level > 15.
C12_ChargingSinceLowSample ==
    notification_state = Charging =>
        /\ low_since_charging = "no"
        /\ pc = "sleep" => (charging \/ level > 15)

\* the state is still Charging after a sample with charging=false
C12_Witness ==
    /\ Processed /\ ~charging /\ level > 15
    /\ notification_state = Charging
    /\ low_since_charging = "no"

\* this step reads a Battery Source file or asks the Notifier to show an alert
ReadsOrShows ==
    \/ raw_full' # raw_full /\ raw_full' # NotRead
    \/ raw_now' # raw_now /\ raw_now' # NotRead
    \/ raw_status' # raw_status /\ raw_status' # NotRead
    \/ fired' # fired /\ fired' # <<>>

\* C13: libnotify is initialised before the first sample is taken and before
\* any alert is shown; it is torn down exactly once on every exit that follows
\* a successful initialisation (a read failure and a notifier failure
\* included) and never while the loop runs; nothing is read or shown after
\* the teardown.
C13_InitTeardownBracket ==
    /\ [](/\ libnotify_inits \in {0, 1}
          /\ (raw_full # NotRead \/ fired # <<>> \/ last_alert # NoAlert)
                => libnotify_inits = 1
          /\ pc # "exit" => libnotify_uninits = 0
          /\ pc = "exit" => libnotify_uninits = libnotify_inits)
    /\ [][/\ ReadsOrShows => (libnotify_inits = 1 /\ libnotify_uninits = 0)
          /\ pc # "exit"]_vars

\* a failed read of energy_now, in a cycle after a displayed alert, tore
\* libnotify down once
C13_Witness ==
    /\ pc = "exit" /\ outcome = "panic" /\ error = "energy_now"
    /\ last_alert # NoAlert
    /\ libnotify_inits = 1 /\ libnotify_uninits = 1

\* C14: every alert, critical or low, has its timeout set to the unbounded
\* value at the moment the Notifier is asked to show it, and a critical alert
\* has its urgency set to critical.
C14_ShownWithInfiniteTimeout ==
    \A i \in 1..Len(fired) :
        /\ fired[i].timeout = I32Max
        /\ fired[i].kind = "critical" => fired[i].urgency = "Critical"

\* the clock leaves room for one more cycle within the explored time
RoomForACycle == clock + SleepSecs + MaxDrift <= MaxTime

\* C15: battery_notifier never returns Ok: it ends only with an error or a
\* panic; and unless a read, a parse or the Notifier fails, every processed
\* sample (within the explored time) is followed by another sample, which is
\* processed in turn.
C15_NeverEndsSuccessfully ==
    /\ [](outcome # "Ok")
    /\ [](pc = "exit" => (outcome \in {"Err", "panic"} /\ error # "none"))
    /\ (pc = "sleep" /\ RoomForACycle) ~> (pc = "decide" \/ pc = "exit")
    /\ (pc = "decide") ~> (pc = "sleep" \/ pc = "exit")

\* the loop is still running after five minutes of samples
C15_Witness ==
    /\ Processed /\ outcome = "running" /\ now >= 300
    /\ last_alert # NoAlert

\* every alert of this iteration was displayed and is the most recent one
FiredIsLastAlert ==
    \A i \in 1..Len(fired) :
        fired[i].displayed /\ last_alert = [kind |-> fired[i].kind, at |-> now]

\* C16: in NotifiedLow(t) the most recent alert is a low alert of time t, in
\* NotifiedCritical(t) a critical alert of time t, and in NeverNotified no
\* alert has fired and no charging=true sample has been processed. While
\* battery_notifier runs no other alert has been fired since; a failed
\* display ends the run (C8) and leaves the state as it was.
C16_StateRecordsLastAlert ==
    /\ notification_state.tag = "NotifiedLow"
         => last_alert = [kind |-> "low", at |-> notification_state.at]
    /\ notification_state.tag = "NotifiedCritical"
         => last_alert = [kind |-> "critical", at |-> notification_state.at]
    /\ notification_state.tag = "NeverNotified"
         => (/\ last_alert = NoAlert /\ last_low = NoTime
             /\ low_since_charging = "never charged" /\ ~charged_since_low)
    /\ pc # "exit" => FiredIsLastAlert

\* NotifiedCritical keeps the time of a critical alert of an earlier cycle,
\* itself later than a low alert
C16_Witness ==
    /\ Processed /\ fired = <<>>
    /\ notification_state.tag = "NotifiedCritical"
    /\ notification_state.at < now
    /\ last_alert = [kind |-> "critical", at |-> notification_state.at]
    /\ last_low # NoTime /\ last_low < notification_state.at

\* C17: in a run of the loop the clock never goes back and the sleep between
\* a cycle's timestamp and the next one lasts at least 60 s, so a timestamp
\* the state carries is at least 60 s old when a sample is processed: the
\* critical cooldown never suppresses, and every processed sample with
\* charging=false and level <= 6 fires a critical alert.
C17_CooldownNeverSuppresses ==
    /\ []((pc = "decide" /\ notification_state.at # NoTime)
            => now - notification_state.at >= 60)
    /\ [][/\ clock' >= clock
          /\ pc = "sleep" => clock' - now >= 60
          /\ pc = "read_charging" => now' = clock
          /\ (pc = "decide" /\ ~charging /\ level <= 6)
                => OneAlert(fired', "critical")]_vars

\* a critical alert was fired exactly 60 s after the critical alert the state
\* records (its display failed, so the state still shows the earlier one)
C17_Witness ==
    /\ pc = "exit" /\ ~charging /\ level <= 6
    /\ OneAlert(fired, "critical")
    /\ notification_state = NotifiedCritical(now - 60)

\* C18: the first sample with charging=false and level <= 15 processed after
\* a charging=true sample, with only samples above 15 in between, fires
\* exactly one alert, critical if level <= 6 and low otherwise, however
\* recently an alert was fired before the charging=true sample.
C18_ChargingDiscardsCooldowns ==
    [][(/\ pc = "decide" /\ ~charging /\ level <= 15
        /\ low_since_charging = "no")
         => OneAlert(fired', IF level <= 6 THEN "critical" ELSE "low")]_vars

\* a low alert was fired less than 300 s after the last displayed low alert,
\* a charging=true sample in between (its display failed, so the time of the
\* earlier one is still recorded)
C18_Witness ==
    /\ pc = "exit" /\ ~charging /\ level > 6 /\ level <= 15
    /\ OneAlert(fired, "low")
    /\ last_low # NoTime /\ now - last_low < 300
    /\ charged_since_low /\ low_since_charging = "no"

\* the run ended with a failure, or the sample just processed is not one the
\* claim supposes: it has charging=true or a level above maxlevel
Excused(maxlevel) ==
    \/ pc = "exit"
    \/ pc = "sleep" /\ (charging \/ level > maxlevel)

\* the explored time holds the alert that has to follow the last one: the
\* first sample taken 300 s or more after it
RoomForNextAlert ==
    last_alert.at + (low_frequency - 1) + SleepSecs + MaxDrift <= MaxTime

\* C19: with no failure and all samples at charging=false and level <= 15,
\* every alert is followed by another alert: once an alert has fired, every
\* cycle that begins leads to a new alert (within the explored time). With
\* all samples at charging=false and level <= 6, every cycle that begins
\* leads to a critical alert; cycles keep beginning by C15.
C19_AlertsKeepFiring ==
    /\ (pc = "read_now" /\ last_alert # NoAlert /\ RoomForNextAlert)
          ~> (Excused(15) \/ (pc = "sleep" /\ fired # <<>>))
    /\ (pc = "read_now")
          ~> (Excused(6) \/ (pc = "sleep" /\ OneAlert(fired, "critical")))

\* a second alert, with no charging=true sample since the low alert before it
C19_Witness ==
    /\ Processed /\ OneAlert(fired, "critical")
    /\ last_low # NoTime /\ now - last_low >= 60
    /\ ~charged_since_low /\ low_since_charging = "never charged"

====
